---- MODULE Spec2Model ----
(***************************************************************************)
(* A model of the MetaNetX service: the ingestion of the six MetaNetX      *)
(* tables into the in-memory dictionaries (parser.py, data.py) and the     *)
(* search endpoints served from them (resources.py).                       *)
(*                                                                         *)
(* Text is modelled as a sequence of one-character strings, so that        *)
(* splitting, case folding, the term regex and float() are computed and    *)
(* not assumed.  Python's None is the one-element sequence <<"None">>,     *)
(* which is no text since "None" is not one character.                     *)
(***************************************************************************)
EXTENDS Integers, Sequences, FiniteSets, TLC

VARIABLES
    pc,                       \* position of load_metanetx_data / the service
    loader,                   \* the module whose load_metanetx_data was called
    compartments,             \* data.compartments
    reactions,                \* data.reactions (values are references)
    metabolites,              \* data.metabolites (values are references)
    reaction_objs,            \* every Reaction object constructed so far
    metabolite_objs,          \* every Metabolite object constructed so far
    reaction_key_index,       \* data.reaction_key_index
    metabolite_key_index,     \* data.metabolite_key_index
    counters,                 \* the local counters of load_metanetx_data
    rows_read,                \* non-comment rows yielded by _iterate_tsv, per table
    last_row,                 \* the table and kind of the line consumed last
    query,                    \* the query of the search served last
    ranked,                   \* the local list of the search after truncation
    response,                 \* what the search returned (or the exception)
    eq_input,                 \* parse_equation: the term lists the text was made of
    eq_text,                  \* parse_equation: its argument
    eq_result                 \* parse_equation: its result

vars == <<pc, loader, compartments, reactions, metabolites,
          reaction_objs, metabolite_objs, reaction_key_index,
          metabolite_key_index, counters, rows_read, last_row,
          query, ranked, response, eq_input, eq_text, eq_result>>

----------------------------------------------------------------------------
(* Characters and text *)

None == <<"None">>

Digits == <<"0", "1", "2", "3", "4", "5", "6", "7", "8", "9">>

UpperCase == <<"A", "B", "C", "D", "E", "F", "G", "H", "I", "J", "K", "L", "M",
               "N", "O", "P", "Q", "R", "S", "T", "U", "V", "W", "X", "Y", "Z">>

LowerCase == <<"a", "b", "c", "d", "e", "f", "g", "h", "i", "j", "k", "l", "m",
               "n", "o", "p", "q", "r", "s", "t", "u", "v", "w", "x", "y", "z">>

Range(s) == {s[i] : i \in DOMAIN s}

IsDigit(c) == c \in Range(Digits)

\* \w of the re module, on ASCII text
IsWord(c) == c \in Range(Digits) \cup Range(UpperCase) \cup Range(LowerCase) \cup {"_"}

DigitVal(c) == (CHOOSE i \in DOMAIN Digits : Digits[i] = c) - 1

LowerChar(c) ==
    IF c \in Range(UpperCase)
    THEN LowerCase[CHOOSE i \in DOMAIN UpperCase : UpperCase[i] = c]
    ELSE c

\* str.lower()
Lower(s) == [i \in DOMAIN s |-> LowerChar(s[i])]

\* str.find(sep) + 1: the first position where sep occurs in s, 0 when none
IndexOf(s, sep) ==
    LET hits == {i \in 1..(Len(s) - Len(sep) + 1) :
                    SubSeq(s, i, i + Len(sep) - 1) = sep}
    IN  IF hits = {} THEN 0 ELSE CHOOSE i \in hits : \A j \in hits : i <= j

\* sub in s
Contains(s, sub) == Len(sub) = 0 \/ IndexOf(s, sub) > 0

\* str.split(sep)
RECURSIVE Split(_, _)
Split(s, sep) ==
    LET i == IndexOf(s, sep)
    IN  IF i = 0 THEN <<s>>
        ELSE <<SubSeq(s, 1, i - 1)>> \o Split(SubSeq(s, i + Len(sep), Len(s)), sep)

\* str.split(sep, 1)
Split1(s, sep) ==
    LET i == IndexOf(s, sep)
    IN  IF i = 0 THEN <<s>>
        ELSE <<SubSeq(s, 1, i - 1), SubSeq(s, i + Len(sep), Len(s))>>

----------------------------------------------------------------------------
(* Python dictionaries: insertion-ordered sequences of key/value entries *)

DictKeys(d) == {d[i].key : i \in DOMAIN d}

DictHas(d, k) == \E i \in DOMAIN d : d[i].key = k

DictGet(d, k) == d[CHOOSE i \in DOMAIN d : d[i].key = k].val

\* d[k] = v: a present key keeps its position, a new one goes last
DictSet(d, k, v) ==
    IF DictHas(d, k)
    THEN [i \in DOMAIN d |-> IF d[i].key = k THEN [key |-> k, val |-> v] ELSE d[i]]
    ELSE Append(d, [key |-> k, val |-> v])

\* d.values()
DictValues(d) == [i \in DOMAIN d |-> d[i].val]

----------------------------------------------------------------------------
(* float() of the text of a coefficient: an exact decimal, mant / 10^exp,  *)
(* with the trailing zeros of the fraction dropped so that equal numbers   *)
(* are equal values.                                                       *)

CountOf(s, c) == Cardinality({i \in DOMAIN s : s[i] = c})

RECURSIVE DigitsValue(_)
DigitsValue(s) ==
    IF Len(s) = 0 THEN 0
    ELSE 10 * DigitsValue(SubSeq(s, 1, Len(s) - 1)) + DigitVal(s[Len(s)])

RECURSIVE StripZeros(_)
StripZeros(s) ==
    IF Len(s) > 0 /\ s[Len(s)] = "0" THEN StripZeros(SubSeq(s, 1, Len(s) - 1)) ELSE s

\* whether float(s) returns, for s made of digits and dots
FloatOk(s) ==
    /\ \A i \in DOMAIN s : IsDigit(s[i]) \/ s[i] = "."
    /\ CountOf(s, ".") <= 1
    /\ \E i \in DOMAIN s : IsDigit(s[i])

Float(s) ==
    LET dot  == IndexOf(s, <<".">>)
        int  == IF dot = 0 THEN s ELSE SubSeq(s, 1, dot - 1)
        frac == IF dot = 0 THEN <<>> ELSE StripZeros(SubSeq(s, dot + 1, Len(s)))
    IN  [mant |-> DigitsValue(int \o frac), exp |-> Len(frac)]

FloatTimes(f, k) == [mant |-> f.mant * k, exp |-> f.exp]

----------------------------------------------------------------------------
(* data.py: Reaction.metabolite_regex and Reaction.parse_equation *)

\* "$" matches at the end of the text and before a newline that ends it
BeforeFinalNewline(t) ==
    IF Len(t) > 0 /\ t[Len(t)] = "\n" THEN SubSeq(t, 1, Len(t) - 1) ELSE t

\* the three groups of ^([\d\.]+) (\w+)@(\w+)$ on t, where it matches; the
\* classes exclude the separators, so the groups end at the first " " and "@"
RegexGroups(t) ==
    LET body == BeforeFinalNewline(t)
        sp   == IndexOf(body, <<" ">>)
        at   == IndexOf(body, <<"@">>)
    IN  [coefficient    |-> SubSeq(body, 1, sp - 1),
         metabolite_id  |-> SubSeq(body, sp + 1, at - 1),
         compartment_id |-> SubSeq(body, at + 1, Len(body))]

AllWord(s) == Len(s) > 0 /\ \A i \in DOMAIN s : IsWord(s[i])

\* [\d\.]+
CoefficientClass(s) == Len(s) > 0 /\ \A i \in DOMAIN s : IsDigit(s[i]) \/ s[i] = "."

\* re.match(Reaction.metabolite_regex, t) is not None
metabolite_regex(t) ==
    LET body == BeforeFinalNewline(t)
        sp   == IndexOf(body, <<" ">>)
        at   == IndexOf(body, <<"@">>)
        g    == RegexGroups(t)
    IN  /\ sp > 0
        /\ at > sp
        /\ CoefficientClass(g.coefficient)
        /\ AllWord(g.metabolite_id)
        /\ AllWord(g.compartment_id)

\* a term of the equation raises ValueError: no match, or float() refuses
TermRaises(t) ==
    \/ ~metabolite_regex(t)
    \/ ~FloatOk(RegexGroups(t).coefficient)

SubstrateTermMutant(t) ==
    LET g == RegexGroups(t)
    IN  [metabolite_id  |-> g.metabolite_id,
         compartment_id |-> g.compartment_id,
         coefficient    |-> Float(g.coefficient)]

\* data.py 91-98
SubstrateTerm(t) ==
    LET g == RegexGroups(t)
    IN  [metabolite_id  |-> g.metabolite_id,
         compartment_id |-> g.compartment_id,
         coefficient    |-> FloatTimes(Float(g.coefficient), -1)]

\* data.py 103-110
ProductTerm(t) ==
    LET g == RegexGroups(t)
    IN  [metabolite_id  |-> g.metabolite_id,
         compartment_id |-> g.compartment_id,
         coefficient    |-> Float(g.coefficient)]

Returned(v) == [raised |-> "", value |-> v]

Raised(e) == [raised |-> e, value |-> <<>>]

\* a parser that skips the products it cannot read
parse_equation_mutant(equation_string) ==
    LET sides == Split(equation_string, <<" ", "=", " ">>)
    IN  IF Len(sides) # 2 THEN Raised("ValueError")
        ELSE LET substrates == Split(sides[1], <<" ", "+", " ">>)
                 Reads(t)   == ~TermRaises(t)
                 products   == SelectSeq(Split(sides[2], <<" ", "+", " ">>), Reads)
             IN  IF \E i \in DOMAIN substrates : TermRaises(substrates[i])
                 THEN Raised("ValueError")
                 ELSE Returned([i \in DOMAIN substrates |-> SubstrateTerm(substrates[i])]
                               \o [i \in DOMAIN products |-> ProductTerm(products[i])])

\* data.py 72-111

parse_equation(equation_string) ==
    LET sides == Split(equation_string, <<" ", "=", " ">>)
    IN  IF Len(sides) # 2 THEN Raised("ValueError")
        ELSE LET substrates == Split(sides[1], <<" ", "+", " ">>)
                 products   == Split(sides[2], <<" ", "+", " ">>)
             IN  IF \/ \E i \in DOMAIN substrates : TermRaises(substrates[i])
                    \/ \E i \in DOMAIN products : TermRaises(products[i])
                 THEN Raised("ValueError")
                 ELSE Returned([i \in DOMAIN substrates |-> SubstrateTerm(substrates[i])]
                               \o [i \in DOMAIN products |-> ProductTerm(products[i])])

----------------------------------------------------------------------------
(* data.py: the entity classes.  annotation is a defaultdict(list).        *)

Compartment(mnx_id, name, xref) ==
    [mnx_id |-> mnx_id, name |-> name, xref |-> xref, annotation |-> <<>>]

\* the object Reaction(...) builds when parse_equation returns
Reaction(mnx_id, name, equation_string, ec) ==
    [mnx_id |-> mnx_id, name |-> name, equation_string |-> equation_string,
     equation_parsed |-> parse_equation(equation_string).value,
     ec |-> ec, annotation |-> <<>>]

Metabolite(mnx_id, name, formula) ==
    [mnx_id |-> mnx_id, name |-> name, formula |-> formula, annotation |-> <<>>]

\* entity.annotation[namespace].append(reference)
AnnotationAppend(entity, namespace, reference) ==
    LET old == IF DictHas(entity.annotation, namespace)
               THEN DictGet(entity.annotation, namespace) ELSE <<>>
    IN  [entity EXCEPT !.annotation = DictSet(@, namespace, Append(old, reference))]

----------------------------------------------------------------------------
(* parser.py: _miriam_identifiers.  A table is a sequence of                *)
(* <<MetaNetX namespace, miriam namespace>>.                                *)

CompartmentNsMap ==
    <<
       <<<<"b", "i", "g", "g">>, "bigg.compartment">>,
       <<<<"c", "c", "o">>, "cco">>,
       <<<<"g", "o">>, "go">>,
       <<<<"n", "a", "m", "e">>, "name">>,
       <<<<"s", "e", "e", "d">>, "seed">>
    >>

ReactionNsMap ==
    <<
       <<<<"b", "i", "g", "g">>, "bigg.reaction">>,
       <<<<"d", "e", "p", "r", "e", "c", "a", "t", "e", "d">>, "metanetx.reaction">>,
       <<<<"k", "e", "g", "g">>, "kegg.reaction">>,
       <<<<"m", "e", "t", "a", "c", "y", "c">>, "metacyc.reaction">>,
       <<<<"r", "e", "a", "c", "t", "o", "m", "e">>, "reactome">>,
       <<<<"r", "h", "e", "a">>, "rhea">>,
       <<<<"s", "a", "b", "i", "o", "r", "k">>, "sabiork.reaction">>,
       <<<<"s", "e", "e", "d">>, "seed.reaction">>
    >>

KeggMap ==
    <<
       <<<<"C">>, "kegg.compound">>,
       <<<<"D">>, "kegg.drug">>,
       <<<<"E">>, "kegg.environ">>,
       <<<<"G">>, "kegg.glycan">>
    >>

MetaboliteNsMap ==
    <<
       <<<<"b", "i", "g", "g">>, "bigg.metabolite">>,
       <<<<"d", "e", "p", "r", "e", "c", "a", "t", "e", "d">>, "metanetx.chemical">>,
       <<<<"e", "n", "v", "i", "p", "a", "t", "h">>, "envipath">>,
       <<<<"h", "m", "d", "b">>, "hmdb">>,
       <<<<"l", "i", "p", "i", "d", "m", "a", "p", "s">>, "lipidmaps">>,
       <<<<"m", "e", "t", "a", "c", "y", "c">>, "metacyc.compound">>,
       <<<<"r", "e", "a", "c", "t", "o", "m", "e">>, "reactome">>,
       <<<<"s", "a", "b", "i", "o", "r", "k">>, "sabiork.compound">>,
       <<<<"s", "e", "e", "d">>, "seed.compound">>
    >>

MapHas(m, k) == \E i \in DOMAIN m : m[i][1] = k

MapGet(m, k) == m[CHOOSE i \in DOMAIN m : m[i][1] = k][2]

Identified(namespace, identifier) ==
    [raised |-> "", namespace |-> namespace, identifier |-> identifier]

IdentifierError(e) == [raised |-> e, namespace |-> "", identifier |-> <<>>]

\* ns_map[namespace]
NsLookup(m, namespace, identifier) ==
    IF MapHas(m, namespace) THEN Identified(MapGet(m, namespace), identifier)
    ELSE IdentifierError("KeyError")

miriam_identifiers(type_, namespace, identifier) ==
    IF type_ = "compartment" THEN NsLookup(CompartmentNsMap, namespace, identifier)
    ELSE IF type_ = "reaction" THEN NsLookup(ReactionNsMap, namespace, identifier)
    ELSE IF namespace = <<"k", "e", "g", "g">>
         THEN IF Len(identifier) = 0 THEN IdentifierError("IndexError")
              ELSE NsLookup(KeggMap, <<identifier[1]>>, identifier)
    ELSE IF namespace = <<"s", "l", "m">>
         THEN Identified("swisslipid", <<"S", "L", "M", ":">> \o identifier)
    ELSE IF namespace = <<"c", "h", "e", "b", "i">>
         THEN Identified("chebi", <<"C", "H", "E", "B", "I", ":">> \o identifier)
    ELSE NsLookup(MetaboliteNsMap, namespace, identifier)

----------------------------------------------------------------------------
(* The lines of the tables.  A line is the sequence of the columns the     *)
(* loader reads (the ignored columns are left out); the identifiers and    *)
(* equations below are the texts the lines are made of.                    *)

C1 == <<"C", "1">>

C2 == <<"C", "2">>

C9 == <<"C", "9">>

M1 == <<"M", "1">>

M2 == <<"M", "2">>

M9 == <<"M", "9">>

R1 == <<"R", "1">>

R2 == <<"R", "2">>

R3 == <<"R", "3">>

EqGood == <<"1", " ", "M", "1", "@", "C", "1", " ", "=", " ", "2", " ", "M", "2", "@", "C", "2">>

EqZero == <<"0", " ", "M", "1", "@", "C", "1", " ", "=", " ", "1", " ", "M", "2", "@", "C", "1">>

EqInexact == <<"(", "n", ")", " ", "M", "1", "@", "C", "1", " ", "=", " ", "1", " ", "M", "2", "@", "C", "1">>

EqBadProduct == <<"1", " ", "M", "1", "@", "C", "1", " ", "=", " ", "1", " ", "M", "2", "@", "C", "1", " ", "+", " ", "n", " ", "M", "1", "@", "C", "1">>

EqOneSide == <<"1", " ", "M", "1", "@", "C", "1">>

EqDots == <<"1", ".", "2", ".", "3", " ", "M", "1", "@", "C", "1", " ", "=", " ", "1", " ", "M", "2", "@", "C", "1">>

Txt_cytosol == <<"c", "y", "t", "o", "s", "o", "l">>

Txt_water == <<"w", "a", "t", "e", "r">>

Txt_H2O == <<"H", "2", "O">>

Txt_aR1 == <<"a", "R", "1">>

Txt_comment == <<"#", "I", "D">>

Xref_go == <<"g", "o", ":", "1">>

Xref_foo == <<"f", "o", "o", ":", "1">>

Xref_keggM1 == <<"k", "e", "g", "g", ":", "M", "1">>

Xref_biggR1 == <<"b", "i", "g", "g", ":", "R", "1">>

Xref_keggC7 == <<"k", "e", "g", "g", ":", "C", "7">>

Xref_keggX7 == <<"k", "e", "g", "g", ":", "X", "7">>

Xref_chebi == <<"c", "h", "e", "b", "i", ":", "7">>

\* comp_prop.tsv: mnx_id, name, xref
CompPropLines == {<<C1, Txt_cytosol, <<>>>>, <<C2, <<>>, <<>>>>}

\* comp_xref.tsv: xref, mnx_id
CompXrefLines == {<<Xref_go, C1>>, <<Xref_foo, C1>>, <<Xref_go, C9>>, <<Txt_cytosol, C1>>}

\* reac_prop.tsv: mnx_id, equation, ec
ReacPropLines ==
    {<<R1, EqGood, <<>>>>, <<R1, EqZero, <<"1", ".", "1">>>>, <<R2, EqGood, R1>>,
     <<R2, EqInexact, <<>>>>, <<R1, EqBadProduct, <<>>>>, <<R2, EqOneSide, <<>>>>,
     <<R1, EqDots, <<>>>>, <<Txt_comment, <<>>, <<>>>>}

\* reac_xref.tsv: xref, mnx_id
ReacXrefLines ==
    {<<Xref_keggM1, R1>>, <<Xref_biggR1, R2>>, <<Xref_foo, R1>>, <<Xref_keggM1, R3>>,
     <<Txt_water, R1>>}

\* chem_prop.tsv: mnx_id, name, formula
ChemPropLines == {<<M1, Txt_water, Txt_H2O>>, <<M2, M1, <<>>>>}

\* chem_xref.tsv: xref, mnx_id
ChemXrefLines ==
    {<<Xref_keggC7, M1>>, <<Xref_keggX7, M1>>, <<Xref_chebi, M2>>, <<Xref_foo, M1>>,
     <<Xref_keggC7, M9>>, <<Txt_water, M1>>}

\* reaction_names.json.gz as json.load gives it: the local reaction_names
ReactionNames == <<[key |-> R2, val |-> Txt_aR1]>>

\* the lines all the tables hold together, at most
MaxLines == 4

Tables == <<"comp_prop", "comp_xref", "reac_prop", "reac_xref", "chem_prop", "chem_xref">>

TableNo(t) == CHOOSE i \in DOMAIN Tables : Tables[i] = t

----------------------------------------------------------------------------
(* parser.py: load_metanetx_data, one action per line of a table *)

\* _iterate_tsv: line.startswith("#")
IsComment(line) == Len(line[1]) > 0 /\ line[1][1] = "#"

LinesRead == rows_read.comment + rows_read.comp_prop + rows_read.comp_xref
             + rows_read.reac_prop + rows_read.reac_xref + rows_read.chem_prop
             + rows_read.chem_xref

\* the loop over table t gets a next line: the tables before it have ended
CanRead(t) ==
    /\ pc \in Range(Tables)
    /\ TableNo(pc) <= TableNo(t)
    /\ LinesRead < MaxLines

\* _iterate_tsv yields the line, or skips it as a comment
Consume(t, line) ==
    /\ rows_read' = IF IsComment(line)
                    THEN [rows_read EXCEPT !.comment = @ + 1]
                    ELSE [rows_read EXCEPT ![t] = @ + 1]
    /\ last_row' = [table |-> t, line |-> line]

\* ":" in xref
HasColon(xref) == IndexOf(xref, <<":">>) > 0

ServiceIdle == UNCHANGED <<query, ranked, response, eq_input, eq_text, eq_result>>

\* parser.py 37-40: the loader is entered and reads the reaction names
ReadReactionNames ==
    /\ pc = "start"
    /\ pc' = "comp_prop"
    /\ loader' = "parser"
    /\ UNCHANGED <<compartments, reactions, metabolites, reaction_objs, metabolite_objs,
                   reaction_key_index, metabolite_key_index, counters, rows_read,
                   last_row>>
    /\ ServiceIdle

\* parser.py 42-45
CompPropLine(line) ==
    /\ CanRead("comp_prop")
    /\ Consume("comp_prop", line)
    /\ pc' = "comp_prop"
    /\ compartments' =
         IF IsComment(line) THEN compartments
         ELSE DictSet(compartments, line[1], Compartment(line[1], line[2], line[3]))
    /\ UNCHANGED <<loader, reactions, metabolites, reaction_objs,
                   metabolite_objs, reaction_key_index, metabolite_key_index, counters>>
    /\ ServiceIdle

\* parser.py 48-57; an exception leaves the loader
CompXrefLine(line) ==
    /\ CanRead("comp_xref")
    /\ Consume("comp_xref", line)
    /\ LET xref   == line[1]
           mnx_id == line[2]
           parts  == Split1(xref, <<":">>)
           ident  == miriam_identifiers("compartment", parts[1], parts[2])
       IN  IF IsComment(line) \/ ~HasColon(xref)
           THEN pc' = "comp_xref" /\ UNCHANGED <<compartments, counters>>
           ELSE IF ident.raised # "" \/ ~DictHas(compartments, mnx_id)
           THEN pc' = "aborted" /\ UNCHANGED <<compartments, counters>>
           ELSE /\ pc' = "comp_xref"
                /\ compartments' =
                     DictSet(compartments, mnx_id,
                             AnnotationAppend(DictGet(compartments, mnx_id),
                                              ident.namespace, ident.identifier))
                /\ counters' = [counters EXCEPT !.compartment_xrefs = @ + 1]
    /\ UNCHANGED <<loader, reactions, metabolites, reaction_objs,
                   metabolite_objs, reaction_key_index, metabolite_key_index>>
    /\ ServiceIdle

\* reaction_names.get(mnx_id)
NameOf(mnx_id) ==
    IF DictHas(ReactionNames, mnx_id) THEN DictGet(ReactionNames, mnx_id) ELSE None

\* if name:
Truthy(name) == name # None /\ Len(name) > 0

\* parser.py 67-72: the keys a new reaction is registered under
RegisterReaction(index, ref, mnx_id, name, ec) ==
    LET byId   == DictSet(index, Lower(mnx_id), ref)
        byName == IF Truthy(name) THEN DictSet(byId, Lower(name), ref) ELSE byId
    IN  DictSet(byName, Lower(ec), ref)

CountFilteredMutant(c) == c

\* parser.py 77: filtered_reaction_count += 1
CountFiltered(c) == [c EXCEPT !.filtered_reaction_count = @ + 1]

\* parser.py 61-77
ReacPropLine(line) ==
    /\ CanRead("reac_prop")
    /\ Consume("reac_prop", line)
    /\ pc' = "reac_prop"
    /\ LET mnx_id   == line[1]
           equation == line[2]
           ec       == line[3]
           name     == NameOf(mnx_id)
           ref      == Len(reaction_objs) + 1
       IN  IF IsComment(line)
           THEN UNCHANGED <<reactions, reaction_objs, reaction_key_index, counters>>
           ELSE IF parse_equation(equation).raised = "ValueError"
           THEN /\ counters' = CountFiltered(counters)
                /\ UNCHANGED <<reactions, reaction_objs, reaction_key_index>>
           ELSE /\ reaction_objs' = Append(reaction_objs, Reaction(mnx_id, name, equation, ec))
                /\ reactions' = DictSet(reactions, mnx_id, ref)
                /\ reaction_key_index' = RegisterReaction(reaction_key_index, ref, mnx_id, name, ec)
                /\ UNCHANGED counters
    /\ UNCHANGED <<loader, compartments, metabolites, metabolite_objs,
                   metabolite_key_index>>
    /\ ServiceIdle

\* parser.py 85-102; the KeyError of _miriam_identifiers is raised in the
\* else branch of the try statement, which no handler covers
ReacXrefLine(line) ==
    /\ CanRead("reac_xref")
    /\ Consume("reac_xref", line)
    /\ LET xref   == line[1]
           mnx_id == line[2]
           parts  == Split1(xref, <<":">>)
           ident  == miriam_identifiers("reaction", parts[1], parts[2])
           ref    == DictGet(reactions, mnx_id)
       IN  IF IsComment(line) \/ ~HasColon(xref)
           THEN /\ pc' = "reac_xref"
                /\ UNCHANGED <<reaction_objs, reaction_key_index, counters>>
           ELSE IF ~DictHas(reactions, mnx_id)
           THEN /\ pc' = "reac_xref"
                /\ counters' = [counters EXCEPT !.reaction_xrefs_missing = @ + 1]
                /\ UNCHANGED <<reaction_objs, reaction_key_index>>
           ELSE IF ident.raised # ""
           THEN /\ pc' = "aborted"
                /\ UNCHANGED <<reaction_objs, reaction_key_index, counters>>
           ELSE /\ pc' = "reac_xref"
                /\ reaction_objs' =
                     [reaction_objs EXCEPT
                        ![ref] = AnnotationAppend(@, ident.namespace, ident.identifier)]
                /\ reaction_key_index' =
                     DictSet(reaction_key_index, Lower(ident.identifier), ref)
                /\ counters' = [counters EXCEPT !.reaction_xrefs = @ + 1]
    /\ UNCHANGED <<loader, compartments, reactions, metabolites,
                   metabolite_objs, metabolite_key_index>>
    /\ ServiceIdle

\* parser.py 112-113: the keys a new metabolite is registered under
RegisterMetabolite(index, ref, mnx_id, name) ==
    DictSet(DictSet(index, Lower(mnx_id), ref), Lower(name), ref)

\* parser.py 108-113
ChemPropLine(line) ==
    /\ CanRead("chem_prop")
    /\ Consume("chem_prop", line)
    /\ pc' = "chem_prop"
    /\ LET mnx_id == line[1]
           name   == line[2]
           ref    == Len(metabolite_objs) + 1
       IN  IF IsComment(line)
           THEN UNCHANGED <<metabolites, metabolite_objs, metabolite_key_index>>
           ELSE /\ metabolite_objs' = Append(metabolite_objs, Metabolite(mnx_id, name, line[3]))
                /\ metabolites' = DictSet(metabolites, mnx_id, ref)
                /\ metabolite_key_index' =
                     RegisterMetabolite(metabolite_key_index, ref, mnx_id, name)
    /\ UNCHANGED <<loader, compartments, reactions, reaction_objs,
                   reaction_key_index, counters>>
    /\ ServiceIdle

\* parser.py 118-134
ChemXrefLine(line) ==
    /\ CanRead("chem_xref")
    /\ Consume("chem_xref", line)
    /\ LET xref   == line[1]
           mnx_id == line[2]
           parts  == Split1(xref, <<":">>)
           ident  == miriam_identifiers("metabolite", parts[1], parts[2])
           ref    == DictGet(metabolites, mnx_id)
       IN  IF IsComment(line) \/ ~HasColon(xref)
           THEN /\ pc' = "chem_xref"
                /\ UNCHANGED <<metabolite_objs, metabolite_key_index, counters>>
           ELSE IF ~DictHas(metabolites, mnx_id)
           THEN /\ pc' = "chem_xref"
                /\ counters' = [counters EXCEPT !.metabolite_xrefs_missing = @ + 1]
                /\ UNCHANGED <<metabolite_objs, metabolite_key_index>>
           ELSE IF ident.raised # ""
           THEN /\ pc' = "aborted"
                /\ UNCHANGED <<metabolite_objs, metabolite_key_index, counters>>
           ELSE /\ pc' = "chem_xref"
                /\ metabolite_objs' =
                     [metabolite_objs EXCEPT
                        ![ref] = AnnotationAppend(@, ident.namespace, ident.identifier)]
                /\ metabolite_key_index' =
                     DictSet(metabolite_key_index, Lower(ident.identifier), ref)
                /\ counters' = [counters EXCEPT !.metabolite_xrefs = @ + 1]
    /\ UNCHANGED <<loader, compartments, reactions, metabolites,
                   reaction_objs, reaction_key_index>>
    /\ ServiceIdle

\* parser.py 135-138: the last table has ended and the loader returns
LoadReturns ==
    /\ pc \in Range(Tables)
    /\ pc' = "serving"
    /\ UNCHANGED <<loader, compartments, reactions, metabolites, reaction_objs,
                   metabolite_objs, reaction_key_index, metabolite_key_index,
                   counters, rows_read, last_row>>
    /\ ServiceIdle

----------------------------------------------------------------------------
(* data.py: the load_metanetx_data the module itself still defines.  It     *)
(* fills the same dictionaries from the same tables, stores a cross-        *)
(* reference under the namespace as the table spells it and writes no key   *)
(* index.  The call is one action; its tables are drawn up to MaxDataLines. *)

\* the lines the tables of one call of data.load_metanetx_data hold, at most
MaxDataLines == 2

LinesOf(t) ==
    CASE t = "comp_prop" -> CompPropLines
      [] t = "comp_xref" -> CompXrefLines
      [] t = "reac_prop" -> ReacPropLines
      [] t = "reac_xref" -> ReacXrefLines
      [] t = "chem_prop" -> ChemPropLines
      [] t = "chem_xref" -> ChemXrefLines

TableRows == UNION {{<<t, line>> : line \in LinesOf(t)} : t \in Range(Tables)}

\* the rows of the six tables in the order the loader reads them
TableFiles ==
    UNION {{rows \in [1..n -> TableRows] :
               \A i \in 1..(n - 1) : TableNo(rows[i][1]) <= TableNo(rows[i + 1][1])}
           : n \in 0..MaxDataLines}

\* data.py 188-192, 212-224, 236-250: a cross-reference row of an entity that
\* the dictionary holds, namespace and reference split at the first colon
DataAnnotate(entity, xref) ==
    LET parts == Split1(xref, <<":">>)
    IN  AnnotationAppend(entity, parts[1], parts[2])

\* data.py 182-253: what one row of table t does to the dictionaries
DataRow(s, t, line) ==
    LET read   == [s EXCEPT !.rows_read[t] = @ + 1,
                            !.last_row = [table |-> t, line |-> line]]
        mnx_id == IF t \in {"comp_prop", "reac_prop", "chem_prop"} THEN line[1] ELSE line[2]
        rref   == Len(s.reaction_objs) + 1
        mref   == Len(s.metabolite_objs) + 1
    IN  IF s.raised # "" THEN s
        ELSE IF IsComment(line)
        THEN [s EXCEPT !.rows_read.comment = @ + 1,
                       !.last_row = [table |-> t, line |-> line]]
        ELSE IF t = "comp_prop"
        THEN [read EXCEPT !.compartments =
                  DictSet(@, mnx_id, Compartment(line[1], line[2], line[3]))]
        ELSE IF t = "reac_prop"
        THEN IF parse_equation(line[2]).raised = "ValueError"
             THEN [read EXCEPT !.counters.filtered_reaction_count = @ + 1]
             ELSE [read EXCEPT
                     !.reaction_objs =
                         Append(@, Reaction(mnx_id, NameOf(mnx_id), line[2], line[3])),
                     !.reactions = DictSet(@, mnx_id, rref)]
        ELSE IF t = "chem_prop"
        THEN [read EXCEPT
                !.metabolite_objs = Append(@, Metabolite(mnx_id, line[2], line[3])),
                !.metabolites = DictSet(@, mnx_id, mref)]
        ELSE IF ~HasColon(line[1]) THEN read
        ELSE IF t = "comp_xref"
        THEN IF ~DictHas(s.compartments, mnx_id)
             THEN [read EXCEPT !.raised = "KeyError"]
             ELSE [read EXCEPT
                     !.compartments =
                         DictSet(@, mnx_id, DataAnnotate(DictGet(@, mnx_id), line[1])),
                     !.counters.compartment_xrefs = @ + 1]
        ELSE IF t = "reac_xref"
        THEN IF ~DictHas(s.reactions, mnx_id)
             THEN [read EXCEPT !.counters.reaction_xrefs_missing = @ + 1]
             ELSE [read EXCEPT
                     !.reaction_objs[DictGet(s.reactions, mnx_id)] =
                         DataAnnotate(@, line[1]),
                     !.counters.reaction_xrefs = @ + 1]
        ELSE IF ~DictHas(s.metabolites, mnx_id)
             THEN [read EXCEPT !.counters.metabolite_xrefs_missing = @ + 1]
             ELSE [read EXCEPT
                     !.metabolite_objs[DictGet(s.metabolites, mnx_id)] =
                         DataAnnotate(@, line[1]),
                     !.counters.metabolite_xrefs = @ + 1]

\* the loops of data.py 182-253 over the rows of the tables
RECURSIVE DataRows(_, _)
DataRows(s, rows) ==
    IF Len(rows) = 0 THEN s
    ELSE DataRows(DataRow(s, rows[1][1], rows[1][2]), Tail(rows))

\* data.py 177-257: data.load_metanetx_data(), from its first line to its
\* return or to the KeyError of a compartment cross-reference
load_metanetx_data(rows) ==
    /\ pc = "start"
    /\ loader' = "data"
    /\ LET s == DataRows([compartments |-> compartments, reactions |-> reactions,
                          metabolites |-> metabolites, reaction_objs |-> reaction_objs,
                          metabolite_objs |-> metabolite_objs, counters |-> counters,
                          rows_read |-> rows_read, last_row |-> last_row,
                          raised |-> ""], rows)
       IN  /\ pc' = IF s.raised # "" THEN "aborted" ELSE "serving"
           /\ compartments' = s.compartments
           /\ reactions' = s.reactions
           /\ metabolites' = s.metabolites
           /\ reaction_objs' = s.reaction_objs
           /\ metabolite_objs' = s.metabolite_objs
           /\ counters' = s.counters
           /\ rows_read' = s.rows_read
           /\ last_row' = s.last_row
    /\ UNCHANGED <<reaction_key_index, metabolite_key_index>>
    /\ ServiceIdle

----------------------------------------------------------------------------
(* fuzzywuzzy.fuzz as resources.py calls it: ratio and partial_ratio over   *)
(* difflib.SequenceMatcher (no junk, texts far below the autojunk length).  *)
(* Offsets are Python's: a[i] is the model's a[i + 1].  Both functions      *)
(* answer 0 for None, then 100 for equal arguments, then 0 for an empty     *)
(* one, before any matching is done.                                        *)

\* the common blocks a[i:i+k] == b[j:j+k] within a[alo:ahi] and b[blo:bhi]
CommonBlocks(a, b, alo, ahi, blo, bhi) ==
    {m \in (alo..(ahi - 1)) \X (blo..(bhi - 1)) \X (1..(ahi - alo)) :
        /\ m[1] + m[3] <= ahi
        /\ m[2] + m[3] <= bhi
        /\ SubSeq(a, m[1] + 1, m[1] + m[3]) = SubSeq(b, m[2] + 1, m[2] + m[3])}

\* SequenceMatcher.find_longest_match: the longest block, of those the one
\* that starts earliest in a, of those the one that starts earliest in b
find_longest_match(a, b, alo, ahi, blo, bhi) ==
    LET all == CommonBlocks(a, b, alo, ahi, blo, bhi)
    IN  IF all = {} THEN <<alo, blo, 0>>
        ELSE CHOOSE m \in all :
                \A o \in all :
                    \/ m[3] > o[3]
                    \/ m[3] = o[3] /\ m[1] < o[1]
                    \/ m[3] = o[3] /\ m[1] = o[1] /\ m[2] <= o[2]

\* SequenceMatcher.get_matching_blocks, without the closing (la, lb, 0)
RECURSIVE MatchingBlocks(_, _, _, _, _, _)
MatchingBlocks(a, b, alo, ahi, blo, bhi) ==
    LET m == find_longest_match(a, b, alo, ahi, blo, bhi)
        i == m[1]
        j == m[2]
        k == m[3]
    IN  IF k = 0 THEN <<>>
        ELSE (IF alo < i /\ blo < j THEN MatchingBlocks(a, b, alo, i, blo, j) ELSE <<>>)
             \o <<m>>
             \o (IF i + k < ahi /\ j + k < bhi
                 THEN MatchingBlocks(a, b, i + k, ahi, j + k, bhi) ELSE <<>>)

get_matching_blocks(a, b) ==
    MatchingBlocks(a, b, 0, Len(a), 0, Len(b)) \o <<<<Len(a), Len(b), 0>>>>

RECURSIVE SumSizes(_)
SumSizes(blocks) ==
    IF Len(blocks) = 0 THEN 0 ELSE blocks[1][3] + SumSizes(Tail(blocks))

\* SequenceMatcher.ratio() as the fraction num / den  (2.0 * matches / length)
SequenceRatio(a, b) ==
    IF Len(a) + Len(b) = 0 THEN [num |-> 1, den |-> 1]
    ELSE [num |-> 2 * SumSizes(get_matching_blocks(a, b)), den |-> Len(a) + Len(b)]

\* utils.intr(100 * r): int(round(.)) of the double 100 * r, where r is the
\* double nearest to num / den.  Off a half the double rounds as the exact
\* value does.  An exact half k + 1/2 has r = (2k + 1) / 200, one double for
\* each k in 0..99: the product is k + 1/2 exactly and round() takes the even
\* neighbour, except that 100 * 0.575 is 57.49999999999999 (rounded down to
\* 57) and 100 * 0.545 is 54.50000000000001 (rounded up to 55)
Intr100(r) ==
    LET n == 100 * r.num
        q == n \div r.den
        m == n % r.den
    IN  IF 2 * m > r.den THEN q + 1
        ELSE IF 2 * m < r.den THEN q
        ELSE IF q = 57 THEN q
        ELSE IF q = 54 THEN q + 1
        ELSE IF q % 2 = 0 THEN q ELSE q + 1

\* fuzz.ratio with its decorators check_for_none, check_for_equivalence,
\* check_empty_string
fuzz_ratio(s1, s2) ==
    IF s1 = None \/ s2 = None THEN 0
    ELSE IF s1 = s2 THEN 100
    ELSE IF Len(s1) = 0 \/ Len(s2) = 0 THEN 0
    ELSE Intr100(SequenceRatio(s1, s2))

Max(S) == CHOOSE x \in S : \A y \in S : y <= x

Min(S) == CHOOSE x \in S : \A y \in S : x <= y

\* fuzz.partial_ratio with the same decorators
fuzz_partial_ratio(s1, s2) ==
    IF s1 = None \/ s2 = None THEN 0
    ELSE IF s1 = s2 THEN 100
    ELSE IF Len(s1) = 0 \/ Len(s2) = 0 THEN 0
    ELSE LET shorter == IF Len(s1) <= Len(s2) THEN s1 ELSE s2
             longer  == IF Len(s1) <= Len(s2) THEN s2 ELSE s1
             blocks  == get_matching_blocks(shorter, longer)
             Start(block) == IF block[2] - block[1] > 0 THEN block[2] - block[1] ELSE 0
             Sub(block) == SubSeq(longer, Start(block) + 1,
                                  Min({Start(block) + Len(shorter), Len(longer)}))
             rs == {SequenceRatio(shorter, Sub(blocks[n])) : n \in DOMAIN blocks}
         IN  IF \E r \in rs : 1000 * r.num > 995 * r.den THEN 100
             ELSE Max({Intr100(r) : r \in rs})

----------------------------------------------------------------------------
(* resources.py: the two search endpoints *)

\* resources.py 69 and 110: the results are limited to the first 30
ResultCap == 30

\* s[:n]
Take(s, n) == SubSeq(s, 1, Min({n, Len(s)}))

SearchKeyMutant(q, r) ==
    Max({fuzz_partial_ratio(q, r.name), fuzz_ratio(q, r.ec)})

\* resources.py 58-64: the sort key of a reaction
SearchKey(q, r) ==
    Max({fuzz_ratio(q, r.mnx_id), fuzz_partial_ratio(q, r.name), fuzz_ratio(q, r.ec)})

\* Reaction.match: the best of the ID, every annotation identifier of every
\* namespace (0 when the reaction has no annotation), the name and the EC number
match(self, q) ==
    Max({fuzz_ratio(q, self.mnx_id),
         IF Len(self.annotation) > 0
         THEN Max({Max({fuzz_ratio(q, identifier) : identifier \in Range(db)})
                   : db \in Range(DictValues(self.annotation))})
         ELSE 0,
         fuzz_partial_ratio(q, self.name),
         fuzz_ratio(q, self.ec)})

\* x goes before the elements whose key equals its own
InsertDescendingMutant(sorted, x) ==
    LET ahead == {i \in DOMAIN sorted : sorted[i].key > x.key}
        n     == IF ahead = {} THEN 0 ELSE Max(ahead)
    IN  SubSeq(sorted, 1, n) \o <<x>> \o SubSeq(sorted, n + 1, Len(sorted))

\* one step of a stable descending sort: x goes behind every element whose
\* key is at least its own
InsertDescending(sorted, x) ==
    LET ahead == {i \in DOMAIN sorted : sorted[i].key >= x.key}
        n     == IF ahead = {} THEN 0 ELSE Max(ahead)
    IN  SubSeq(sorted, 1, n) \o <<x>> \o SubSeq(sorted, n + 1, Len(sorted))

\* sorted(values, key=..., reverse=True): each value with its key, in the
\* order of the sorted list
RECURSIVE SortedDescending(_, _, _)
SortedDescending(q, values, objs) ==
    IF Len(values) = 0 THEN <<>>
    ELSE LET last == values[Len(values)]
         IN  InsertDescending(SortedDescending(q, SubSeq(values, 1, Len(values) - 1), objs),
                              [key |-> SearchKey(q, objs[last]), val |-> last])

\* resources.py 56-69: the references of the reactions, ranked and limited
RankReactions(q, store, objs) ==
    Take(DictValues(SortedDescending(q, DictValues(store), objs)), ResultCap)

\* resources.py 73-92: the metabolites and compartments of each reaction are
\* looked up with [], which raises KeyError for an unknown ID
ReactionResults(refs, objs, mets, comps) ==
    LET MetIds(ref)  == {t.metabolite_id : t \in Range(objs[ref].equation_parsed)}
        CompIds(ref) == {t.compartment_id : t \in Range(objs[ref].equation_parsed)}
    IN  IF \E i \in DOMAIN refs :
              \/ \E m \in MetIds(refs[i]) : ~DictHas(mets, m)
              \/ \E c \in CompIds(refs[i]) : ~DictHas(comps, c)
        THEN Raised("KeyError")
        ELSE Returned([i \in DOMAIN refs |->
                 [reaction     |-> refs[i],
                  metabolites  |-> {DictGet(mets, m) : m \in MetIds(refs[i])},
                  compartments |-> {DictGet(comps, c).mnx_id : c \in CompIds(refs[i])}]])

\* resources.py 105-106
MetaboliteMatches(q, m) ==
    \/ Contains(Lower(m.mnx_id), Lower(q))
    \/ Contains(Lower(m.name), Lower(q))

\* resources.py 102-110
FilterMetabolites(q, store, objs) ==
    LET Matches(ref) == MetaboliteMatches(q, objs[ref])
    IN  Take(SelectSeq(DictValues(store), Matches), ResultCap)

Queries == {R1, M1}

IngestIdle ==
    UNCHANGED <<pc, loader, compartments, reactions, metabolites, reaction_objs,
                metabolite_objs, reaction_key_index, metabolite_key_index,
                counters, rows_read, last_row, eq_input, eq_text, eq_result>>

\* ReactionResource.get
ReactionSearch(q) ==
    /\ pc = "serving"
    /\ query' = [kind |-> "reaction", text |-> q]
    /\ ranked' = RankReactions(q, reactions, reaction_objs)
    /\ response' = ReactionResults(ranked', reaction_objs, metabolites, compartments)
    /\ IngestIdle

\* MetaboliteResource.get
MetaboliteSearch(q) ==
    /\ pc = "serving"
    /\ query' = [kind |-> "metabolite", text |-> q]
    /\ ranked' = FilterMetabolites(q, metabolites, metabolite_objs)
    /\ response' = Returned(ranked')
    /\ IngestIdle

NoRow == [table |-> "", line |-> <<>>]

\* data.reaction_key_index and data.metabolite_key_index, which parser.py
\* imports: two dictionaries, empty until the loader registers a key
EmptyKeyIndex == <<>>

Init ==
    /\ pc = "start"
    /\ loader = ""
    /\ compartments = <<>>
    /\ reactions = <<>>
    /\ metabolites = <<>>
    /\ reaction_objs = <<>>
    /\ metabolite_objs = <<>>
    /\ reaction_key_index = EmptyKeyIndex
    /\ metabolite_key_index = EmptyKeyIndex
    /\ counters = [compartment_xrefs |-> 0, filtered_reaction_count |-> 0,
                   reaction_xrefs |-> 0, reaction_xrefs_missing |-> 0,
                   metabolite_xrefs |-> 0, metabolite_xrefs_missing |-> 0]
    /\ rows_read = [comment |-> 0, comp_prop |-> 0, comp_xref |-> 0, reac_prop |-> 0,
                    reac_xref |-> 0, chem_prop |-> 0, chem_xref |-> 0]
    /\ last_row = NoRow
    /\ query = [kind |-> "", text |-> None]
    /\ ranked = <<>>
    /\ response = Returned(<<>>)
    /\ eq_input = <<>>
    /\ eq_text = None
    /\ eq_result = Returned(<<>>)

Next ==
    \/ ReadReactionNames
    \/ \E line \in CompPropLines : CompPropLine(line)
    \/ \E line \in CompXrefLines : CompXrefLine(line)
    \/ \E line \in ReacPropLines : ReacPropLine(line)
    \/ \E line \in ReacXrefLines : ReacXrefLine(line)
    \/ \E line \in ChemPropLines : ChemPropLine(line)
    \/ \E line \in ChemXrefLines : ChemXrefLine(line)
    \/ LoadReturns
    \/ \E rows \in TableFiles : load_metanetx_data(rows)
    \/ \E q \in Queries : ReactionSearch(q)
    \/ \E q \in Queries : MetaboliteSearch(q)

Spec == Init /\ [][Next]_vars

----------------------------------------------------------------------------
(* parse_equation on its own: equations written out from term lists *)

\* the decimal digits of a natural number
RECURSIVE NatDigits(_)
NatDigits(n) ==
    IF n < 10 THEN <<Digits[n + 1]>>
    ELSE NatDigits(n \div 10) \o <<Digits[(n % 10) + 1]>>

RECURSIVE Zeros(_)
Zeros(n) == IF n <= 0 THEN <<>> ELSE <<"0">> \o Zeros(n - 1)

\* the numeral of the decimal mant / 10^exp, mant >= 0
FormatDecimal(f) ==
    IF f.exp = 0 THEN NatDigits(f.mant)
    ELSE LET ds  == NatDigits(f.mant)
             pad == Zeros(f.exp + 1 - Len(ds)) \o ds
         IN  SubSeq(pad, 1, Len(pad) - f.exp) \o <<".">>
             \o SubSeq(pad, Len(pad) - f.exp + 1, Len(pad))

FormatTerm(t) ==
    FormatDecimal(t.coefficient) \o <<" ">> \o t.metabolite_id \o <<"@">> \o t.compartment_id

RECURSIVE Join(_, _)
Join(parts, sep) ==
    IF Len(parts) = 1 THEN parts[1]
    ELSE parts[1] \o sep \o Join(Tail(parts), sep)

FormatEquation(substrates, products) ==
    Join([i \in DOMAIN substrates |-> FormatTerm(substrates[i])], <<" ", "+", " ">>)
    \o <<" ", "=", " ">>
    \o Join([i \in DOMAIN products |-> FormatTerm(products[i])], <<" ", "+", " ">>)

\* the terms equations are generated from
GeneratorTerms ==
    {[metabolite_id |-> M1, compartment_id |-> C1, coefficient |-> [mant |-> 1, exp |-> 0]],
     [metabolite_id |-> M2, compartment_id |-> C1, coefficient |-> [mant |-> 25, exp |-> 1]],
     [metabolite_id |-> M2, compartment_id |-> C2, coefficient |-> [mant |-> 5, exp |-> 2]],
     [metabolite_id |-> M1, compartment_id |-> C2, coefficient |-> [mant |-> 10, exp |-> 0]],
     [metabolite_id |-> <<"a", "_", "1">>, compartment_id |-> <<"7">>,
      coefficient |-> [mant |-> 0, exp |-> 0]]}

\* the terms one side of a generated equation has, at most
MaxTerms == 2

TermLists == UNION {[1..n -> GeneratorTerms] : n \in 1..MaxTerms}

ParseInit ==
    /\ pc = "parse"
    /\ loader = ""
    /\ compartments = <<>>
    /\ reactions = <<>>
    /\ metabolites = <<>>
    /\ reaction_objs = <<>>
    /\ metabolite_objs = <<>>
    /\ reaction_key_index = <<>>
    /\ metabolite_key_index = <<>>
    /\ counters = [compartment_xrefs |-> 0, filtered_reaction_count |-> 0,
                   reaction_xrefs |-> 0, reaction_xrefs_missing |-> 0,
                   metabolite_xrefs |-> 0, metabolite_xrefs_missing |-> 0]
    /\ rows_read = [comment |-> 0, comp_prop |-> 0, comp_xref |-> 0, reac_prop |-> 0,
                    reac_xref |-> 0, chem_prop |-> 0, chem_xref |-> 0]
    /\ last_row = NoRow
    /\ query = [kind |-> "", text |-> None]
    /\ ranked = <<>>
    /\ response = Returned(<<>>)
    /\ eq_input \in [substrates : TermLists, products : TermLists]
    /\ eq_text = None
    /\ eq_result = Returned(<<>>)

\* Reaction.parse_equation(equation_string)
ParseEquation ==
    /\ pc = "parse"
    /\ eq_text = None
    /\ eq_text' = FormatEquation(eq_input.substrates, eq_input.products)
    /\ eq_result' = parse_equation(eq_text')
    /\ UNCHANGED <<pc, loader, compartments, reactions, metabolites,
                   reaction_objs, metabolite_objs, reaction_key_index,
                   metabolite_key_index, counters, rows_read, last_row,
                   query, ranked, response, eq_input>>

ParseNext == ParseEquation

ParseSpec == ParseInit /\ [][ParseNext]_vars

----------------------------------------------------------------------------
(* The search endpoints over a loaded store of any size up to MaxStore:     *)
(* the store load_metanetx_data leaves for the tables BigReacLine and       *)
(* BigChemLine describe, in one of the Variants of their names and ECs.     *)

\* the reactions, and the metabolites, a loaded store holds at most
MaxStore == 32

Variants == 1..3

BigId(prefix, i) == <<prefix>> \o NatDigits(i)

BigQueryR == BigId("R", 7)

BigQueryM == BigId("M", MaxStore)

\* reaction_names.json.gz of the variant
BigNames(v, n) ==
    IF v = 3
    THEN [i \in 1..(n \div 2) |-> [key |-> BigId("R", 2 * i), val |-> <<"a">> \o BigQueryR]]
    ELSE <<>>

\* reac_prop.tsv of the variant, line i
BigReacLine(v, i) ==
    <<BigId("R", i), EqGood,
      IF v = 2 /\ i = 3 THEN BigQueryR ELSE <<"1", ".", Digits[(i % 3) + 1]>>>>

\* chem_prop.tsv of the variant, line i
BigChemLine(v, i) ==
    <<BigId("M", i), IF v = 2 THEN <<"x">> \o BigQueryM ELSE Txt_water, Txt_H2O>>

\* the state of the reaction dictionaries after the first n lines (parser.py 61-72)
RECURSIVE BigReactions(_, _, _)
BigReactions(v, n, names) ==
    IF n = 0 THEN [store |-> <<>>, objs |-> <<>>, index |-> <<>>]
    ELSE LET before == BigReactions(v, n - 1, names)
             line   == BigReacLine(v, n)
             name   == IF DictHas(names, line[1]) THEN DictGet(names, line[1]) ELSE None
             ref    == Len(before.objs) + 1
         IN  [store |-> DictSet(before.store, line[1], ref),
              objs  |-> Append(before.objs, Reaction(line[1], name, line[2], line[3])),
              index |-> RegisterReaction(before.index, ref, line[1], name, line[3])]

\* the state of the metabolite dictionaries after the first n lines (parser.py 108-113)
RECURSIVE BigMetabolites(_, _)
BigMetabolites(v, n) ==
    IF n = 0 THEN [store |-> <<>>, objs |-> <<>>, index |-> <<>>]
    ELSE LET before == BigMetabolites(v, n - 1)
             line   == BigChemLine(v, n)
             ref    == Len(before.objs) + 1
         IN  [store |-> DictSet(before.store, line[1], ref),
              objs  |-> Append(before.objs, Metabolite(line[1], line[2], line[3])),
              index |-> RegisterMetabolite(before.index, ref, line[1], line[2])]

BigQueries == {BigQueryR, BigQueryM, BigId("R", 31), <<"1">>}

SearchInit ==
    \E v \in Variants, n \in 0..MaxStore :
        LET names == BigNames(v, n)
            rs    == BigReactions(v, n, names)
            ms    == BigMetabolites(v, n)
        IN  /\ pc = "serving"
            /\ loader = "parser"
            /\ compartments = <<[key |-> C1, val |-> Compartment(C1, Txt_cytosol, <<>>)],
                                [key |-> C2, val |-> Compartment(C2, <<>>, <<>>)]>>
            /\ reactions = rs.store
            /\ reaction_objs = rs.objs
            /\ reaction_key_index = rs.index
            /\ metabolites = ms.store
            /\ metabolite_objs = ms.objs
            /\ metabolite_key_index = ms.index
            /\ counters = [compartment_xrefs |-> 0, filtered_reaction_count |-> 0,
                           reaction_xrefs |-> 0, reaction_xrefs_missing |-> 0,
                           metabolite_xrefs |-> 0, metabolite_xrefs_missing |-> 0]
            /\ rows_read = [comment |-> 0, comp_prop |-> 2, comp_xref |-> 0,
                            reac_prop |-> n, reac_xref |-> 0, chem_prop |-> n,
                            chem_xref |-> 0]
            /\ last_row = NoRow
            /\ query = [kind |-> "", text |-> None]
            /\ ranked = <<>>
            /\ response = Returned(<<>>)
            /\ eq_input = <<>>
            /\ eq_text = None
            /\ eq_result = Returned(<<>>)

SearchNext ==
    \/ \E q \in BigQueries : ReactionSearch(q)
    \/ \E q \in BigQueries : MetaboliteSearch(q)

SearchSpec == SearchInit /\ [][SearchNext]_vars

----------------------------------------------------------------------------
(* The properties checked *)

LoadDone == pc = "serving"

\* the equations of ReacPropLines that do not follow the grammar
\*   <coefficient> <metabolite>@<compartment> { + term } = term { + term }
MalformedEquations == {EqInexact, EqBadProduct, EqOneSide, EqDots}

ReactionRowRead == rows_read'.reac_prop = rows_read.reac_prop + 1

\* C1 as stated: after the reaction table, the reactions installed plus the
\* filtered rows are the non-comment rows of the table, whatever the rows are
C1_InstalledPlusFilteredIsRows ==
    LoadDone =>
        Len(reactions) + counters.filtered_reaction_count = rows_read.reac_prop

ReactionIdsBuilt == {reaction_objs[i].mnx_id : i \in DOMAIN reaction_objs}

\* C1 amended: every non-comment row either builds a Reaction or is counted as
\* filtered, and the store holds one reaction per distinct ID among the rows
\* that built one; a repeated ID replaces the reaction installed before
C1_BuiltPlusFilteredIsRows ==
    /\ Len(reaction_objs) + counters.filtered_reaction_count = rows_read.reac_prop
    /\ Len(reactions) = Cardinality(ReactionIdsBuilt)
    /\ Len(reactions) + counters.filtered_reaction_count <= rows_read.reac_prop

C1_Witness ==
    /\ LoadDone
    /\ rows_read.reac_prop = 3
    /\ rows_read.comment = 1
    /\ counters.filtered_reaction_count = 1
    /\ Len(reactions) = 1
    /\ Len(reaction_objs) = 2

\* the entry of index for the case-folded key is the entity ref
FoundAsItself(index, key, ref) ==
    DictHas(index, Lower(key)) /\ DictGet(index, Lower(key)) = ref

\* a lookup of the case-folded ID of compartment c, in either key index the
\* loader builds, gives c
CompartmentFound(c) ==
    LET key == Lower(c.mnx_id)
    IN  \/ /\ DictHas(reaction_key_index, key)
           /\ reaction_objs[DictGet(reaction_key_index, key)] = c
        \/ /\ DictHas(metabolite_key_index, key)
           /\ metabolite_objs[DictGet(metabolite_key_index, key)] = c

\* the load that builds the key indices has returned
IndexLoadDone == LoadDone /\ loader = "parser"

\* C2 as stated: after the load, the lookup of the case-folded ID of every
\* installed compartment, reaction and metabolite gives that entity
C2_LookupOfIdIsEntity ==
    IndexLoadDone =>
        /\ \A i \in DOMAIN compartments : CompartmentFound(compartments[i].val)
        /\ \A i \in DOMAIN reactions :
              FoundAsItself(reaction_key_index, reactions[i].key, reactions[i].val)
        /\ \A i \in DOMAIN metabolites :
              FoundAsItself(metabolite_key_index, metabolites[i].key, metabolites[i].val)

XrefTables == {"comp_xref", "reac_xref", "chem_xref"}

\* the cross-references of the lines whose namespace has no mapping for the
\* kind of the table, or, for a metabolite, a kegg identifier not of C, D, E, G
UnknownNamespace(row) ==
    /\ row.table \in XrefTables
    /\ \/ row.line[1] = Xref_foo
       \/ row.table = "chem_xref" /\ row.line[1] = Xref_keggX7

\* C3 as stated: a cross-reference row of an unknown namespace does not end
\* the load
C3_UnknownNamespaceNotFatal == UnknownNamespace(last_row) => pc # "aborted"

StoreOf(table) ==
    IF table = "comp_xref" THEN compartments
    ELSE IF table = "reac_xref" THEN reactions ELSE metabolites

\* a namespaced cross-reference row whose owning entity is not in the store
Dangling(row) ==
    /\ row.table \in XrefTables
    /\ HasColon(row.line[1])
    /\ ~DictHas(StoreOf(row.table), row.line[2])

MissingReferences == counters.reaction_xrefs_missing + counters.metabolite_xrefs_missing

\* C4 as stated: a dangling cross-reference row of any kind does not end the
\* load, adds no annotation and no index entry, and is counted as missing
C4_DanglingRowCounted ==
    [][(LinesRead' = LinesRead + 1 /\ Dangling(last_row')) =>
          /\ pc' # "aborted"
          /\ compartments' = compartments
          /\ reaction_objs' = reaction_objs
          /\ metabolite_objs' = metabolite_objs
          /\ reaction_key_index' = reaction_key_index
          /\ metabolite_key_index' = metabolite_key_index
          /\ MissingReferences' = MissingReferences + 1]_vars

\* C5: a row of the reaction table that the loader of parser.py reads and
\* whose equation does not follow the grammar adds one to the filtered counter, leaves the stores and the indices as they
\* were, and the loop goes on
C5_MalformedRowDropped ==
    [][(loader' = "parser" /\ ReactionRowRead
                  /\ last_row'.line[2] \in MalformedEquations) =>
          /\ counters'.filtered_reaction_count = counters.filtered_reaction_count + 1
          /\ reactions' = reactions
          /\ reaction_objs' = reaction_objs
          /\ reaction_key_index' = reaction_key_index
          /\ metabolites' = metabolites
          /\ metabolite_key_index' = metabolite_key_index
          /\ compartments' = compartments
          /\ pc' = "reac_prop"]_vars

C5_Witness ==
    /\ pc = "reac_prop"
    /\ last_row.table = "reac_prop"
    /\ last_row.line[2] = EqBadProduct
    /\ counters.filtered_reaction_count = 2
    /\ Len(reactions) = 1
    /\ Len(reaction_key_index) >= 2

\* C6: the parse of an equation written out from term lists has one term per
\* term of the lists, substrates first, in their order, with the same IDs, the
\* coefficients of the substrates negated and those of the products kept
C6_ParseRecoversTerms ==
    eq_text # None =>
        LET subs  == eq_input.substrates
            prods == eq_input.products
            out   == eq_result.value
        IN  /\ eq_result.raised = ""
            /\ Len(out) = Len(subs) + Len(prods)
            /\ \A i \in DOMAIN subs :
                  /\ out[i].metabolite_id = subs[i].metabolite_id
                  /\ out[i].compartment_id = subs[i].compartment_id
                  /\ out[i].coefficient.exp = subs[i].coefficient.exp
                  /\ out[i].coefficient.mant = 0 - subs[i].coefficient.mant
            /\ \A i \in DOMAIN prods :
                  /\ out[Len(subs) + i].metabolite_id = prods[i].metabolite_id
                  /\ out[Len(subs) + i].compartment_id = prods[i].compartment_id
                  /\ out[Len(subs) + i].coefficient = prods[i].coefficient

C6_Witness ==
    /\ eq_text # None
    /\ Len(eq_input.substrates) = 2
    /\ Len(eq_input.products) = 2
    /\ eq_input.substrates[1] # eq_input.substrates[2]
    /\ eq_input.substrates[2].coefficient.exp = 2
    /\ Len(eq_result.value) = 4
    /\ eq_result.value[2].coefficient.mant < 0

\* C7 as stated: no installed reaction has a term with coefficient zero
C7_NoZeroCoefficient ==
    \A i \in DOMAIN reactions :
        \A t \in Range(reaction_objs[reactions[i].val].equation_parsed) :
            t.coefficient.mant # 0

\* the position of key k in the dictionary d, from 1
DictPosition(d, k) == CHOOSE i \in DOMAIN d : d[i].key = k

\* the position of x in the list s, 0 when it is not in it
ListPosition(s, x) ==
    IF \E i \in DOMAIN s : s[i] = x THEN CHOOSE i \in DOMAIN s : s[i] = x ELSE 0

\* the entities of the kind searched, in the order of the store
Searched == IF query.kind = "reaction" THEN reactions ELSE metabolites

\* the query is the canonical ID of an installed entity of the kind searched
QueryIsInstalledId == query.kind \in {"reaction", "metabolite"} /\ DictHas(Searched, query.text)

\* C8 as stated: a search for the canonical ID of an installed entity has the
\* entity at position 0 of the list it ranks
C8_IdQueryRanksEntityFirst ==
    QueryIsInstalledId =>
        Len(ranked) >= 1 /\ ranked[1] = DictGet(Searched, query.text)

\* the entity at position j of the store matches the query as well as any can
MatchesFully(j) ==
    IF query.kind = "reaction"
    THEN SearchKey(query.text, reaction_objs[reactions[j].val]) = 100
    ELSE MetaboliteMatches(query.text, metabolite_objs[metabolites[j].val])

\* C8 amended: the entity whose canonical ID is the query matches fully, and
\* is ranked right behind the entities that come before it in the store and
\* match fully too (a reaction with score 100, a metabolite whose ID or name
\* contains the query); it is not in the list when these are 30 or more
C8_IdQueryRanksEntityBehindEarlierFullMatches ==
    QueryIsInstalledId =>
        LET i     == DictPosition(Searched, query.text)
            ahead == Cardinality({j \in 1..(i - 1) : MatchesFully(j)})
        IN  /\ MatchesFully(i)
            /\ ListPosition(ranked, Searched[i].val) =
                  IF ahead < ResultCap THEN ahead + 1 ELSE 0

C8_Witness ==
    /\ QueryIsInstalledId
    /\ query.kind = "reaction"
    /\ ListPosition(ranked, DictGet(Searched, query.text)) = 2
    /\ response.raised = ""

C8_WitnessCut ==
    /\ QueryIsInstalledId
    /\ query.kind = "metabolite"
    /\ Len(ranked) = ResultCap
    /\ ListPosition(ranked, DictGet(Searched, query.text)) = 0

\* the sort keys of the reactions of the store, in its order
RECURSIVE StoreKeys(_)
StoreKeys(n) ==
    IF n = 0 THEN <<>>
    ELSE Append(StoreKeys(n - 1), SearchKey(query.text, reaction_objs[reactions[n].val]))

\* the positions in the store of the reactions ranked, in the order ranked
RankedPositions ==
    [i \in DOMAIN ranked |->
        CHOOSE j \in DOMAIN reactions : reactions[j].val = ranked[i]]

\* position a of the store is ranked before position b
RankedBefore(keys, a, b) == keys[a] > keys[b] \/ (keys[a] = keys[b] /\ a < b)

\* C9: the list a reaction search ranks has min(30, N) reactions of the store;
\* each one has a higher score than the next, or the same score and an earlier
\* place in the store, and so against every reaction left out; the response,
\* when there is one, lists the same reactions in the same order
C9_RankedIsStableTopOfStore ==
    query.kind = "reaction" =>
        LET keys == StoreKeys(Len(reactions))
            at   == RankedPositions
        IN  /\ Len(ranked) = Min({ResultCap, Len(reactions)})
            /\ Len(ranked) <= ResultCap
            /\ \A i \in DOMAIN ranked : \E j \in DOMAIN reactions : reactions[j].val = ranked[i]
            /\ \A i \in DOMAIN ranked : \A j \in DOMAIN ranked :
                  i < j => RankedBefore(keys, at[i], at[j])
            /\ \A i \in DOMAIN ranked : \A b \in DOMAIN reactions :
                  b \notin Range(at) => RankedBefore(keys, at[i], b)
            /\ response.raised = "" =>
                  [i \in DOMAIN response.value |-> response.value[i].reaction] = ranked

C9_Witness ==
    /\ query.kind = "reaction"
    /\ Len(reactions) > ResultCap
    /\ Len(ranked) = ResultCap
    /\ response.raised = ""
    /\ Len(response.value) = ResultCap
    /\ LET keys == StoreKeys(Len(reactions))
           at   == RankedPositions
       IN  /\ \E i \in DOMAIN ranked : i > 1 /\ keys[at[i]] = keys[at[i - 1]]
           /\ \E i \in DOMAIN ranked : i > 1 /\ keys[at[i]] < keys[at[i - 1]]
           /\ \E b \in DOMAIN reactions :
                 b \notin Range(at) /\ keys[b] = keys[at[ResultCap]]

\* C10 as stated: a reaction search returns a result, whatever the IDs in the
\* equations of the reactions
C10_ReactionSearchNeverFails ==
    query.kind = "reaction" => response.raised = ""

\* C11 as stated: the empty text is never a key of an Exact-Key Index; a
\* reaction row with an empty EC column adds no entry for its EC number
C11_NoEmptyIndexKey ==
    /\ ~DictHas(reaction_key_index, <<>>)
    /\ ~DictHas(metabolite_key_index, <<>>)

\* C12 as stated: the score by which reaction search ranks a reaction is the
\* maximum of the four components of Reaction.match, the annotation one included
C12_RankingScoreIsMatch ==
    (pc = "serving" /\ query.kind = "reaction") =>
        \A i \in DOMAIN reactions :
            LET r == reaction_objs[reactions[i].val]
            IN  SearchKey(query.text, r) = match(r, query.text)

\* C13 as stated: every entity an Exact-Key Index maps a key to is the entity
\* the Record Store currently holds under that entity's own canonical ID, so
\* no key still points at an entity that a later row with the same ID replaced
C13_IndexPointsIntoStore ==
    /\ \A i \in DOMAIN reaction_key_index :
           LET ref == reaction_key_index[i].val
               id  == reaction_objs[ref].mnx_id
           IN  DictHas(reactions, id) /\ DictGet(reactions, id) = ref
    /\ \A i \in DOMAIN metabolite_key_index :
           LET ref == metabolite_key_index[i].val
               id  == metabolite_objs[ref].mnx_id
           IN  DictHas(metabolites, id) /\ DictGet(metabolites, id) = ref

====
